---- MODULE Spec2Model ----
(***************************************************************************)
(* Model of the cursor-rules validator, .github/scripts/validate-rules.js. *)
(*                                                                         *)
(* Text is modelled at character level: a JavaScript string is a sequence  *)
(* of one-character strings, and the string methods and regular            *)
(* expressions used by the validator are operators over such sequences,    *)
(* with JavaScript's 0-based indices.                                      *)
(***************************************************************************)
EXTENDS Integers, Sequences, FiniteSets, TLC

(***************************************************************************)
(* Bounds of the model.                                                    *)
(***************************************************************************)
\* most lines in a generated header block
MaxHeaderLines == 2
\* most lines in a generated body
MaxBodyLines == 2
\* most rule files the glob returns in a modelled run
MaxFiles == 3

(***************************************************************************)
(* Characters and string literals of the source.                           *)
(***************************************************************************)
NL == "\n"
CR == "\r"

Letters ==
  {"a","b","c","d","e","f","g","h","i","j","k","l","m",
   "n","o","p","q","r","s","t","u","v","w","x","y","z",
   "A","B","C","D","E","F","G","H","I","J","K","L","M",
   "N","O","P","Q","R","S","T","U","V","W","X","Y","Z"}

Digits == {"0","1","2","3","4","5","6","7","8","9"}

\* the regular-expression class [\w-]
WordOrHyphen == Letters \cup Digits \cup {"_", "-"}

\* the regular-expression class \s, which is also what trim() strips
WhiteSpace == {" ", "\t", NL, CR, "\f"}

\* what the regular-expression dot does not match
LineTerminators == {NL, CR}

\* '---'
Dashes == <<"-", "-", "-">>

\* '\n---\n'
Closer == <<NL, "-", "-", "-", NL>>

\* '.mdc' of /@[\w-]+\.mdc/g
MdcExt == <<".", "m", "d", "c">>

Description == <<"D","e","s","c","r","i","p","t","i","o","n">>

Globs == <<"G","l","o","b","s">>

\* 'Globs:' of /Globs:\s*(.+)(\n|$)/
GlobsColon == Globs \o <<":">>

REQUIRED_SECTIONS == <<Description, Globs>>

\* the value indexOf returns when there is no occurrence
NotFound == -1

(***************************************************************************)
(* JavaScript string methods.                                              *)
(***************************************************************************)
\* s.substring(a, b) for 0 <= a <= b <= s.length
Substring(s, a, b) == SubSeq(s, a + 1, b)

\* whether p occurs in s at 0-based index k
MatchAt(s, p, k) ==
  /\ k >= 0
  /\ k + Len(p) <= Len(s)
  /\ Substring(s, k, k + Len(p)) = p

StartsWith(s, p) == MatchAt(s, p, 0)

\* s.indexOf(p, from)
IndexOf(s, p, from) ==
  LET hits == {k \in from..(Len(s) - Len(p)) : MatchAt(s, p, k)}
  IN  IF hits = {} THEN NotFound
      ELSE CHOOSE k \in hits : \A j \in hits : k <= j

Includes(s, p) == IndexOf(s, p, 0) # NotFound

\* s.trim()
Trim(s) ==
  LET ink == {k \in 1..Len(s) : s[k] \notin WhiteSpace}
  IN  IF ink = {} THEN <<>>
      ELSE LET lo == CHOOSE k \in ink : \A j \in ink : k <= j
               hi == CHOOSE k \in ink : \A j \in ink : k >= j
           IN  SubSeq(s, lo, hi)

\* s.split(sep), for a non-empty separator
RECURSIVE Split(_, _)
Split(s, sep) ==
  LET k == IndexOf(s, sep, 0)
  IN  IF k = NotFound THEN <<s>>
      ELSE <<Substring(s, 0, k)>> \o Split(Substring(s, k + Len(sep), Len(s)), sep)

\* how many consecutive characters of s, from 0-based index k on, lie in set
RECURSIVE RunLength(_, _, _)
RunLength(s, k, set) ==
  IF k < Len(s) /\ s[k + 1] \in set THEN 1 + RunLength(s, k + 1, set) ELSE 0

(***************************************************************************)
(* The two regular expressions of validateRuleFile.                        *)
(***************************************************************************)
\* how many consecutive characters of s, from 0-based index k on, the
\* regular-expression dot matches
RECURSIVE DotRun(_, _)
DotRun(s, k) ==
  IF k < Len(s) /\ s[k + 1] \notin LineTerminators THEN 1 + DotRun(s, k + 1) ELSE 0

\* /Globs:\s*(.+)(\n|$)/ tried at 0-based index p: the set of pairs <<w, d>>
\* such that 'Globs:' is at p, \s* takes w characters, (.+) takes d >= 1
\* characters and the next position is a newline or the end of input
GlobsTriesAt(s, p) ==
  IF ~MatchAt(s, GlobsColon, p) THEN {}
  ELSE LET after == p + Len(GlobsColon)
           wsMax == RunLength(s, after, WhiteSpace)
       IN  { t \in (0..wsMax) \X (1..Len(s)) :
               /\ t[2] <= DotRun(s, after + t[1])
               /\ \/ after + t[1] + t[2] = Len(s)
                  \/ s[after + t[1] + t[2] + 1] = NL }

\* frontmatter.match(/Globs:\s*(.+)(\n|$)/): <<>> for null, else <<group 1>>.
\* The match is the leftmost one; both quantifiers are greedy, so the engine
\* returns the try with the longest \s* and then the longest (.+).
GlobsMatch(s) ==
  LET starts == {p \in 0..Len(s) : GlobsTriesAt(s, p) # {}}
  IN  IF starts = {} THEN <<>>
      ELSE LET p     == CHOOSE q \in starts : \A r \in starts : q <= r
               tries == GlobsTriesAt(s, p)
               t     == CHOOSE x \in tries : \A y \in tries :
                          \/ x[1] > y[1]
                          \/ x[1] = y[1] /\ x[2] >= y[2]
               from  == p + Len(GlobsColon) + t[1]
           IN  <<Substring(s, from, from + t[2])>>

\* content.match(/@[\w-]+\.mdc/g) || [], scanning from 0-based index k
RECURSIVE ReferencesFrom(_, _)
ReferencesFrom(s, k) ==
  IF k >= Len(s) THEN <<>>
  ELSE IF s[k + 1] # "@" THEN ReferencesFrom(s, k + 1)
  ELSE LET run  == RunLength(s, k + 1, WordOrHyphen)
           lens == {m \in 1..run : MatchAt(s, MdcExt, k + 1 + m)}
       IN  IF lens = {} THEN ReferencesFrom(s, k + 1)
           ELSE LET m   == CHOOSE x \in lens : \A y \in lens : x >= y
                    end == k + 1 + m + Len(MdcExt)
                IN  <<Substring(s, k, end)>> \o ReferencesFrom(s, end)

\* mutant: the regular expression without its g flag, the first match only
ReferencesFirstOnly(s) ==
  IF ReferencesFrom(s, 0) = <<>> THEN <<>> ELSE <<Head(ReferencesFrom(s, 0))>>

References(s) == ReferencesFrom(s, 0)

(***************************************************************************)
(* The messages validateRuleFile pushes, as diagnostics.                   *)
(***************************************************************************)
\* 'File does not start with frontmatter (---)'
MissingHeaderBlock == [kind |-> "MissingHeaderBlock", arg |-> <<>>]

\* 'Frontmatter is not properly closed (missing --- line)'
UnterminatedHeaderBlock == [kind |-> "UnterminatedHeaderBlock", arg |-> <<>>]

\* `Missing required frontmatter section: ${section}`
MissingRequiredKey(section) == [kind |-> "MissingRequiredKey", arg |-> section]

\* 'Globs section is empty'
EmptyRequiredValue == [kind |-> "EmptyRequiredValue", arg |-> Globs]

\* `References non-existent rule file: ${referencedFile}`
DanglingReference(referencedFile) ==
  [kind |-> "DanglingReference", arg |-> referencedFile]

\* 'Missing header sections (no # found)'
EmptyBodyContent == [kind |-> "EmptyBodyContent", arg |-> <<>>]

(***************************************************************************)
(* validateRuleFile(filename, content, allRules), check by check.          *)
(***************************************************************************)
\* mutant: the frontmatter extracted without the startsWith guard of line 101
FrontmatterUnguarded(content) ==
  LET endOfFrontmatter == IndexOf(content, Closer, 3)
  IN  IF endOfFrontmatter # NotFound
      THEN Trim(Substring(content, 3, endOfFrontmatter))
      ELSE <<>>

\* mutant: without a closing delimiter the frontmatter runs to the end of
\* the text
FrontmatterToEnd(content) ==
  IF StartsWith(content, Dashes)
  THEN LET endOfFrontmatter == IndexOf(content, Closer, 3)
       IN  IF endOfFrontmatter # NotFound
           THEN Trim(Substring(content, 3, endOfFrontmatter))
           ELSE Trim(Substring(content, 3, Len(content)))
  ELSE <<>>

\* the frontmatter variable after lines 100-106
Frontmatter(content) ==
  IF StartsWith(content, Dashes)
  THEN LET endOfFrontmatter == IndexOf(content, Closer, 3)
       IN  IF endOfFrontmatter # NotFound
           THEN Trim(Substring(content, 3, endOfFrontmatter))
           ELSE <<>>
  ELSE <<>>

\* the mainContent variable of line 134
MainContent(content) ==
  LET parts == Split(content, Closer)
  IN  IF Len(parts) >= 2 THEN parts[2] ELSE <<>>

StartErrors(content) ==
  IF ~StartsWith(content, Dashes) THEN <<MissingHeaderBlock>> ELSE <<>>

CloseErrors(content) ==
  IF ~Includes(content, Closer) THEN <<UnterminatedHeaderBlock>> ELSE <<>>

RECURSIVE SectionErrorsFrom(_, _)
SectionErrorsFrom(frontmatter, n) ==
  IF n > Len(REQUIRED_SECTIONS) THEN <<>>
  ELSE (IF ~Includes(frontmatter, REQUIRED_SECTIONS[n] \o <<":">>)
        THEN <<MissingRequiredKey(REQUIRED_SECTIONS[n])>>
        ELSE <<>>) \o SectionErrorsFrom(frontmatter, n + 1)

\* mutant: a section whose value is blank is reported as empty
SectionErrorsBlankValue(frontmatter) ==
  SectionErrorsFrom(frontmatter, 1) \o
    (IF \E n \in 1..Len(REQUIRED_SECTIONS) :
          \E p \in 0..Len(frontmatter) :
            LET key   == REQUIRED_SECTIONS[n] \o <<":">>
                after == p + Len(key) + RunLength(frontmatter, p + Len(key), {" "})
            IN  /\ MatchAt(frontmatter, key, p)
                /\ (after = Len(frontmatter) \/ MatchAt(frontmatter, <<NL>>, after))
     THEN <<EmptyRequiredValue>>
     ELSE <<>>)

SectionErrors(frontmatter) == SectionErrorsFrom(frontmatter, 1)

GlobsErrors(frontmatter) ==
  LET globsMatch == GlobsMatch(frontmatter)
  IN  IF globsMatch # <<>> /\ Trim(globsMatch[1]) = <<>>
      THEN <<EmptyRequiredValue>>
      ELSE <<>>

\* mutant: the @ symbol is not removed before the lookup
RECURSIVE ReferenceErrorsKeepSigil(_, _, _)
ReferenceErrorsKeepSigil(references, n, allRules) ==
  IF n > Len(references) THEN <<>>
  ELSE LET referencedFile == references[n]
       IN  (IF referencedFile \notin DOMAIN allRules
            THEN <<DanglingReference(referencedFile)>>
            ELSE <<>>) \o ReferenceErrorsKeepSigil(references, n + 1, allRules)

RECURSIVE ReferenceErrorsFrom(_, _, _)
ReferenceErrorsFrom(references, n, allRules) ==
  IF n > Len(references) THEN <<>>
  ELSE LET referencedFile == Substring(references[n], 1, Len(references[n]))
       IN  (IF referencedFile \notin DOMAIN allRules
            THEN <<DanglingReference(referencedFile)>>
            ELSE <<>>) \o ReferenceErrorsFrom(references, n + 1, allRules)

\* mutant: a missing file is reported once, however often it is referenced
ReferenceErrorsOncePerTarget(content, allRules) ==
  LET all == ReferenceErrorsFrom(References(content), 1, allRules)
      first == {k \in 1..Len(all) : \A j \in 1..(k - 1) : all[j] # all[k]}
      RECURSIVE Pick(_)
      Pick(k) == IF k > Len(all) THEN <<>>
                 ELSE (IF k \in first THEN <<all[k]>> ELSE <<>>) \o Pick(k + 1)
  IN  Pick(1)

\* mutant: references are looked for in mainContent, not in content
ReferenceErrorsBodyOnly(content, allRules) ==
  ReferenceErrorsFrom(References(MainContent(content)), 1, allRules)

ReferenceErrors(content, allRules) ==
  ReferenceErrorsFrom(References(content), 1, allRules)

ContentErrors(content) ==
  IF ~Includes(MainContent(content), <<"#">>) THEN <<EmptyBodyContent>> ELSE <<>>

\* the errors array at line 139
Errors(content, allRules) ==
  StartErrors(content) \o CloseErrors(content)
    \o SectionErrors(Frontmatter(content)) \o GlobsErrors(Frontmatter(content))
    \o ReferenceErrors(content, allRules) \o ContentErrors(content)

\* mutant: a single diagnostic is let through
IsValidLoose(errors) == Len(errors) <= 1

\* the valid field of the returned object
IsValid(errors) == Len(errors) = 0

validateRuleFile(filename, content, allRules) ==
  LET errors == Errors(content, allRules)
  IN  [valid |-> IsValid(errors), errors |-> errors]

(***************************************************************************)
(* Input documents: rule files assembled from header lines and body parts. *)
(***************************************************************************)
\* 'Description: d\n'
LineDescription == Description \o <<":", " ", "d", NL>>

\* 'Globs: g\n'
LineGlobs == Globs \o <<":", " ", "g", NL>>

\* 'Globs: \n', a pattern-list key with a blank value
LineGlobsBlank == Globs \o <<":", " ", NL>>

\* 'XDescription: d\n', an entry under another key
LineOtherKey == <<"X">> \o Description \o <<":", " ", "d", NL>>

HeaderLines == {LineDescription, LineGlobs, LineGlobsBlank, LineOtherKey}

\* the identifiers (paths relative to the rules directory) used in the model
FileA == <<"a", ".", "m", "d", "c">>

FileB == <<"b", ".", "m", "d", "c">>

FileC == <<"s", "/", "c", ".", "m", "d", "c">>

\* '# h\n'
BodyHeading == <<"#", " ", "h", NL>>

\* '@a.mdc\n'
BodyRefA == <<"@">> \o FileA \o <<NL>>

\* '@b.mdc\n'
BodyRefB == <<"@">> \o FileB \o <<NL>>

\* 't\n---\n', a paragraph followed by a horizontal rule
BodyRule == <<"t", NL>> \o Dashes \o <<NL>>

BodyParts == {BodyHeading, BodyRefA, BodyRefB, BodyRule}

\* the delimiter line '---\n', or nothing where it is missing
DelimiterOrNone == {Dashes \o <<NL>>, <<>>}

SeqsUpTo(S, n) == UNION {[1..k -> S] : k \in 0..n}

RECURSIVE Flatten(_)
Flatten(ss) == IF ss = <<>> THEN <<>> ELSE Head(ss) \o Flatten(Tail(ss))

Documents ==
  { open \o Flatten(h) \o close \o Flatten(b) :
      open \in DelimiterOrNone, h \in SeqsUpTo(HeaderLines, MaxHeaderLines),
      close \in DelimiterOrNone, b \in SeqsUpTo(BodyParts, MaxBodyLines) }

WellFormedHeader == Dashes \o <<NL>> \o LineDescription \o LineGlobs \o Dashes \o <<NL>>

\* a valid document without references
DocPlain == WellFormedHeader \o BodyHeading

\* valid documents whose bodies reference a.mdc and b.mdc
DocRefA == WellFormedHeader \o BodyHeading \o BodyRefA

DocRefB == WellFormedHeader \o BodyHeading \o BodyRefB

\* an identifier that no modelled rules directory holds
FileMissing == <<"m", ".", "m", "d", "c">>

\* a document, valid but for its reference to m.mdc
DocRefMissing == WellFormedHeader \o BodyHeading \o <<"@">> \o FileMissing \o <<NL>>

\* a document without a header block
DocNoHeader == BodyHeading

\* what a rule file holds when fs.readFileSync throws on it (a directory
\* named *.mdc, a file that cannot be read)
Unreadable == <<"EISDIR">>

DiskContents == {DocPlain, DocRefA, DocRefB, DocRefMissing, DocNoHeader, Unreadable}

FileIds == {FileA, FileB, FileC}

\* RULES_DIR, relative to the working directory
RULES_DIR == <<".","c","u","r","s","o","r","/","r","u","l","e","s">>

\* path.join(dir, file)
PathJoin(dir, file) == dir \o <<"/">> \o file

\* a Map, as a function from its keys to its values
EmptyMap == [x \in {} |-> x]

MapSet(map, key, value) ==
  [x \in DOMAIN map \cup {key} |-> IF x = key THEN value ELSE map[x]]

Range(seq) == {seq[k] : k \in 1..Len(seq)}

\* the orders in which globSync may return the files of a set
Orders(S) ==
  {q \in [1..Cardinality(S) -> S] : \A x, y \in 1..Cardinality(S) : q[x] = q[y] => x = y}

(***************************************************************************)
(* State.                                                                  *)
(***************************************************************************)
VARIABLES
  dirExists,   \* fs.existsSync(RULES_DIR)
  disk,        \* the *.mdc entries under RULES_DIR: identifier -> content
  pc,          \* where validateRules is
  ruleFiles,   \* what globSync returned
  idx,         \* position of the running for-of loop in ruleFiles
  hasErrors,
  validFiles,
  allRules,
  report,      \* the per-file results printed so far, one record per file
  summary,     \* the summary lines printed, <<>> before that
  exitCode,    \* the process exit code
  call,        \* arguments of a direct call of validateRuleFile
  returned,    \* what that call returned, <<>> before it returns
  previous,    \* what the previous run of the script printed, <<>> if none
  ci           \* the jobs of a run of the workflow cursor-rules.yml

vars == <<dirExists, disk, pc, ruleFiles, idx, hasErrors, validFiles, allRules,
          report, summary, exitCode, call, returned, previous, ci>>

driverVars == <<dirExists, disk, pc, ruleFiles, idx, hasErrors, validFiles,
                allRules, report, summary, exitCode>>

NoCall == [filename |-> <<>>, content |-> <<>>, allRules |-> EmptyMap]

\* no workflow run: the script is run by hand
NoWorkflow == [event |-> "none", ref |-> "none", validate |-> "none",
               sync |-> "none", check |-> "none"]

(***************************************************************************)
(* validateRules(), lines 24-81, and the catch of lines 146-149.           *)
(***************************************************************************)
Init ==
  /\ dirExists \in BOOLEAN
  /\ disk \in UNION {[S -> DiskContents] :
                       S \in {T \in SUBSET FileIds : Cardinality(T) <= MaxFiles}}
  /\ (~dirExists => disk = EmptyMap)
  /\ pc = "start"
  /\ ruleFiles = <<>>
  /\ idx = 1
  /\ hasErrors = FALSE
  /\ validFiles = <<>>
  /\ allRules = EmptyMap
  /\ report = <<>>
  /\ summary = <<>>
  /\ exitCode = 0
  /\ call = NoCall
  /\ returned = <<>>
  /\ previous = <<>>
  /\ ci = NoWorkflow

\* mutant: a missing rules directory is reported but the run goes on
CheckRulesDirGoesOn ==
  /\ pc = "start"
  /\ pc' = "glob"
  /\ UNCHANGED <<dirExists, disk, ruleFiles, idx, hasErrors, validFiles,
                 allRules, report, summary, exitCode, call, returned,
                 previous, ci>>

\* lines 27-31
CheckRulesDir ==
  /\ pc = "start"
  /\ IF ~dirExists
     THEN /\ exitCode' = 1
          /\ pc' = "exited"
     ELSE /\ pc' = "glob"
          /\ UNCHANGED exitCode
  /\ UNCHANGED <<dirExists, disk, ruleFiles, idx, hasErrors, validFiles,
                 allRules, report, summary, call, returned, previous, ci>>

\* mutant: an empty rules directory is warned about but the run goes on to
\* the summary
FindRuleFilesNoEarlyExit ==
  /\ pc = "glob"
  /\ \E found \in Orders(DOMAIN disk) :
       /\ ruleFiles' = found
       /\ pc' = IF Len(found) = 0 THEN "summary" ELSE "firstPass"
  /\ hasErrors' = FALSE
  /\ validFiles' = <<>>
  /\ allRules' = EmptyMap
  /\ idx' = 1
  /\ UNCHANGED <<dirExists, disk, report, summary, exitCode, call, returned,
                 previous, ci>>

\* mutant: the accumulators live outside the function and are not
\* initialised again by a later run
FindRuleFilesKeepsState ==
  /\ pc = "glob"
  /\ \E found \in Orders(DOMAIN disk) :
       /\ ruleFiles' = found
       /\ IF Len(found) = 0
          THEN /\ exitCode' = 0
               /\ pc' = "exited"
          ELSE /\ pc' = "firstPass"
               /\ UNCHANGED exitCode
  /\ idx' = 1
  /\ UNCHANGED <<dirExists, disk, hasErrors, validFiles, allRules, report,
                 summary, call, returned, previous, ci>>

\* lines 33-45
FindRuleFiles ==
  /\ pc = "glob"
  /\ \E found \in Orders(DOMAIN disk) :
       /\ ruleFiles' = found
       /\ IF Len(found) = 0
          THEN /\ exitCode' = 0
               /\ pc' = "exited"
          ELSE /\ pc' = "firstPass"
               /\ UNCHANGED exitCode
  /\ hasErrors' = FALSE
  /\ validFiles' = <<>>
  /\ allRules' = EmptyMap
  /\ idx' = 1
  /\ UNCHANGED <<dirExists, disk, report, summary, call, returned, previous, ci>>

\* mutant: the first pass leaves its loop after the first file
CollectRuleStopsEarly ==
  /\ pc = "firstPass"
  /\ LET file == ruleFiles[idx]
         filePath == PathJoin(RULES_DIR, file)
     IN  allRules' = MapSet(allRules, file, [path |-> filePath])
  /\ pc' = "secondPass"
  /\ idx' = 1
  /\ UNCHANGED <<dirExists, disk, ruleFiles, hasErrors, validFiles, report,
                 summary, exitCode, call, returned, previous, ci>>

\* lines 47-51, one iteration
CollectRule ==
  /\ pc = "firstPass"
  /\ LET file == ruleFiles[idx]
         filePath == PathJoin(RULES_DIR, file)
     IN  allRules' = MapSet(allRules, file, [path |-> filePath])
  /\ IF idx = Len(ruleFiles)
     THEN pc' = "secondPass" /\ idx' = 1
     ELSE pc' = pc /\ idx' = idx + 1
  /\ UNCHANGED <<dirExists, disk, ruleFiles, hasErrors, validFiles, report,
                 summary, exitCode, call, returned, previous, ci>>

\* mutant: results and valid files are put at the front of their lists
RecordResultNewestFirst(file, result) ==
  /\ IF result.valid
     THEN /\ validFiles' = <<file>> \o validFiles
          /\ UNCHANGED hasErrors
     ELSE /\ hasErrors' = TRUE
          /\ UNCHANGED validFiles
  /\ report' = <<[file   |-> file,
                  valid  |-> result.valid,
                  errors |-> result.errors]>> \o report

\* mutant: every file is pushed onto validFiles, the invalid ones too
RecordResultPushesAll(file, result) ==
  /\ validFiles' = Append(validFiles, file)
  /\ IF result.valid
     THEN UNCHANGED hasErrors
     ELSE hasErrors' = TRUE
  /\ report' = Append(report, [file   |-> file,
                               valid  |-> result.valid,
                               errors |-> result.errors])

\* what one iteration of the second pass does with the result for file
RecordResult(file, result) ==
  /\ IF result.valid
     THEN /\ validFiles' = Append(validFiles, file)
          /\ UNCHANGED hasErrors
     ELSE /\ hasErrors' = TRUE
          /\ UNCHANGED validFiles
  /\ report' = Append(report, [file   |-> file,
                               valid  |-> result.valid,
                               errors |-> result.errors])

\* mutant: a single pass, each file validated against the rules registered
\* up to its own position
ValidateRuleSinglePass ==
  /\ pc = "secondPass"
  /\ LET file == ruleFiles[idx]
     IN  IF disk[file] = Unreadable
         THEN /\ pc' = "rejected"
              /\ UNCHANGED <<idx, hasErrors, validFiles, report>>
         ELSE /\ RecordResult(file,
                   validateRuleFile(file, disk[file],
                     [f \in {ruleFiles[k] : k \in 1..idx} |-> allRules[f]]))
              /\ IF idx = Len(ruleFiles)
                 THEN pc' = "summary" /\ idx' = idx
                 ELSE pc' = pc /\ idx' = idx + 1
  /\ UNCHANGED <<dirExists, disk, ruleFiles, allRules, summary, exitCode,
                 call, returned, previous, ci>>

\* mutant: the second pass leaves its loop at the first invalid file
ValidateRuleStopsOnInvalid ==
  /\ pc = "secondPass"
  /\ LET file == ruleFiles[idx]
     IN  IF disk[file] = Unreadable
         THEN /\ pc' = "rejected"
              /\ UNCHANGED <<idx, hasErrors, validFiles, report>>
         ELSE LET result == validateRuleFile(file, disk[file], allRules)
              IN  /\ RecordResult(file, result)
                  /\ IF idx = Len(ruleFiles) \/ ~result.valid
                     THEN pc' = "summary" /\ idx' = idx
                     ELSE pc' = pc /\ idx' = idx + 1
  /\ UNCHANGED <<dirExists, disk, ruleFiles, allRules, summary, exitCode,
                 call, returned, previous, ci>>

\* mutant: the errors array is shared by all calls, so a file starts with
\* the errors of the file validated before it
ValidateRuleSharedErrors ==
  /\ pc = "secondPass"
  /\ LET file == ruleFiles[idx]
     IN  IF disk[file] = Unreadable
         THEN /\ pc' = "rejected"
              /\ UNCHANGED <<idx, hasErrors, validFiles, report>>
         ELSE LET content == disk[file]
                  earlier == IF report = <<>> THEN <<>>
                             ELSE report[Len(report)].errors
                  errors  == earlier \o Errors(content, allRules)
                  result  == [valid |-> IsValid(errors), errors |-> errors]
              IN  /\ RecordResult(file, result)
                  /\ IF idx = Len(ruleFiles)
                     THEN pc' = "summary" /\ idx' = idx
                     ELSE pc' = pc /\ idx' = idx + 1
  /\ UNCHANGED <<dirExists, disk, ruleFiles, allRules, summary, exitCode,
                 call, returned, previous, ci>>

\* mutant: a file's entry is taken out of allRules once it is validated
ValidateRuleDropsEntry ==
  /\ pc = "secondPass"
  /\ LET file == ruleFiles[idx]
     IN  IF disk[file] = Unreadable
         THEN /\ pc' = "rejected"
              /\ UNCHANGED <<idx, hasErrors, validFiles, report, allRules>>
         ELSE LET content == disk[file]
                  result  == validateRuleFile(file, content, allRules)
              IN  /\ RecordResult(file, result)
                  /\ allRules' = [f \in DOMAIN allRules \ {file} |-> allRules[f]]
                  /\ IF idx = Len(ruleFiles)
                     THEN pc' = "summary" /\ idx' = idx
                     ELSE pc' = pc /\ idx' = idx + 1
  /\ UNCHANGED <<dirExists, disk, ruleFiles, summary, exitCode,
                 call, returned, previous, ci>>

\* lines 53-69, one iteration; readFileSync throws on an unreadable entry
\* and the rejection goes to the catch of line 146
ValidateRule ==
  /\ pc = "secondPass"
  /\ LET file == ruleFiles[idx]
     IN  IF disk[file] = Unreadable
         THEN /\ pc' = "rejected"
              /\ UNCHANGED <<idx, hasErrors, validFiles, report>>
         ELSE LET content == disk[file]
                  result  == validateRuleFile(file, content, allRules)
              IN  /\ RecordResult(file, result)
                  /\ IF idx = Len(ruleFiles)
                     THEN pc' = "summary" /\ idx' = idx
                     ELSE pc' = pc /\ idx' = idx + 1
  /\ UNCHANGED <<dirExists, disk, ruleFiles, allRules, summary, exitCode,
                 call, returned, previous, ci>>

\* mutant: the summary is printed but the failure is not turned into an exit
SummarizeExitsZero ==
  /\ pc = "summary"
  /\ summary' = <<[valid   |-> Len(validFiles),
                   invalid |-> Len(ruleFiles) - Len(validFiles)]>>
  /\ pc' = "exited"
  /\ UNCHANGED <<dirExists, disk, ruleFiles, idx, hasErrors, validFiles,
                 allRules, report, exitCode, call, returned, previous, ci>>

\* lines 71-80
Summarize ==
  /\ pc = "summary"
  /\ summary' = <<[valid   |-> Len(validFiles),
                   invalid |-> Len(ruleFiles) - Len(validFiles)]>>
  /\ exitCode' = IF hasErrors THEN 1 ELSE exitCode
  /\ pc' = "exited"
  /\ UNCHANGED <<dirExists, disk, ruleFiles, idx, hasErrors, validFiles,
                 allRules, report, call, returned, previous, ci>>

\* lines 146-149
CatchError ==
  /\ pc = "rejected"
  /\ exitCode' = 1
  /\ pc' = "exited"
  /\ UNCHANGED <<dirExists, disk, ruleFiles, idx, hasErrors, validFiles,
                 allRules, report, summary, call, returned, previous, ci>>

Next ==
  \/ CheckRulesDir
  \/ FindRuleFiles
  \/ CollectRule
  \/ ValidateRule
  \/ Summarize
  \/ CatchError

Spec == Init /\ [][Next]_vars

(***************************************************************************)
(* The script run again on the unchanged rules directory.                  *)
(***************************************************************************)
\* what a finished run printed and how it exited
Outcome ==
  [ruleFiles |-> ruleFiles, report |-> report, summary |-> summary,
   exitCode |-> exitCode]

\* `node validate-rules.js` once more: a new process with nothing printed
\* yet; the locals of validateRules get their values at lines 34 and 43-45
Rerun ==
  /\ pc = "exited"
  /\ ci = NoWorkflow
  /\ previous' = <<Outcome>>
  /\ pc' = "start"
  /\ exitCode' = 0
  /\ report' = <<>>
  /\ summary' = <<>>
  /\ UNCHANGED <<dirExists, disk, ruleFiles, idx, hasErrors, validFiles,
                 allRules, call, returned, ci>>

NextRerun ==
  \/ Next
  \/ Rerun

SpecRerun == Init /\ [][NextRerun]_vars

(***************************************************************************)
(* The workflow "Cursor Rules Maintenance".  ci holds the event and ref of *)
(* one workflow run and the state of its three jobs.  The validator is run *)
(* by the last step of the validate job with .github/scripts as working    *)
(* directory, so in this specification dirExists says whether that         *)
(* directory holds a .cursor/rules directory in the checked-out commit.    *)
(***************************************************************************)
RefMain == "refs/heads/main"

\* on: push and pull_request to main, the weekly schedule, manual dispatch
Triggers ==
  {[event |-> "push",              ref |-> RefMain],
   [event |-> "pull_request",      ref |-> "refs/pull/1/merge"],
   [event |-> "schedule",          ref |-> RefMain],
   [event |-> "workflow_dispatch", ref |-> RefMain],
   [event |-> "workflow_dispatch", ref |-> "refs/heads/dev"]}

InitWorkflow ==
  /\ dirExists \in BOOLEAN
  /\ disk \in UNION {[S -> DiskContents] :
                       S \in {T \in SUBSET FileIds : Cardinality(T) <= MaxFiles}}
  /\ (~dirExists => disk = EmptyMap)
  /\ pc = "idle"
  /\ ruleFiles = <<>>
  /\ idx = 1
  /\ hasErrors = FALSE
  /\ validFiles = <<>>
  /\ allRules = EmptyMap
  /\ report = <<>>
  /\ summary = <<>>
  /\ exitCode = 0
  /\ call = NoCall
  /\ returned = <<>>
  /\ previous = <<>>
  /\ \E t \in Triggers :
       ci = [event |-> t.event, ref |-> t.ref, validate |-> "queued",
             sync |-> "waiting", check |-> "waiting"]

\* validate job: checkout, setup-node and npm ci; a failing step fails the job
SetUpValidateJob ==
  /\ ci.validate = "queued"
  /\ \E stepsOk \in BOOLEAN :
       ci' = [ci EXCEPT !.validate = IF stepsOk THEN "ready" ELSE "failure"]
  /\ UNCHANGED <<driverVars, call, returned, previous>>

\* validate job, last step: node validate-rules.js
RunValidator ==
  /\ ci.validate = "ready"
  /\ pc = "idle"
  /\ pc' = "start"
  /\ ci' = [ci EXCEPT !.validate = "running"]
  /\ UNCHANGED <<dirExists, disk, ruleFiles, idx, hasErrors, validFiles,
                 allRules, report, summary, exitCode, call, returned,
                 previous>>

\* the step, and with it the job, succeeds iff the process exited with 0
FinishValidateJob ==
  /\ ci.validate = "running"
  /\ pc = "exited"
  /\ ci' = [ci EXCEPT !.validate = IF exitCode = 0 THEN "success"
                                                     ELSE "failure"]
  /\ UNCHANGED <<driverVars, call, returned, previous>>

\* mutant: the job condition carries always(), so the result of the needed
\* job no longer counts
DecideSyncAlways ==
  /\ ci.sync = "waiting"
  /\ ci.validate \in {"success", "failure"}
  /\ ci' = [ci EXCEPT !.sync =
              IF ci.ref = RefMain /\ ci.event # "pull_request"
              THEN "started" ELSE "skipped"]
  /\ UNCHANGED <<driverVars, call, returned, previous>>

\* sync-to-projects: needs validate, and an if without a status function,
\* which is evaluated as success() && (...)
DecideSync ==
  /\ ci.sync = "waiting"
  /\ ci.validate \in {"success", "failure"}
  /\ ci' = [ci EXCEPT !.sync =
              IF /\ ci.validate = "success"
                 /\ ci.ref = RefMain
                 /\ ci.event # "pull_request"
              THEN "started" ELSE "skipped"]
  /\ UNCHANGED <<driverVars, call, returned, previous>>

\* check-for-updates: needs no other job
DecideCheckForUpdates ==
  /\ ci.check = "waiting"
  /\ ci' = [ci EXCEPT !.check =
              IF ci.event \in {"schedule", "workflow_dispatch"}
              THEN "started" ELSE "skipped"]
  /\ UNCHANGED <<driverVars, call, returned, previous>>

NextWorkflow ==
  \/ Next
  \/ SetUpValidateJob
  \/ RunValidator
  \/ FinishValidateJob
  \/ DecideSync
  \/ DecideCheckForUpdates

SpecWorkflow == InitWorkflow /\ [][NextWorkflow]_vars

(***************************************************************************)
(* validateRuleFile called on its own, on every generated document and     *)
(* against every set of known rules.                                       *)
(***************************************************************************)
KnownSets == {{FileA}, {FileA, FileB}}

RulesOf(S) == [f \in S |-> [path |-> PathJoin(RULES_DIR, f)]]

InitFile ==
  /\ dirExists = TRUE
  /\ disk = EmptyMap
  /\ pc = "idle"
  /\ ruleFiles = <<>>
  /\ idx = 1
  /\ hasErrors = FALSE
  /\ validFiles = <<>>
  /\ allRules = EmptyMap
  /\ report = <<>>
  /\ summary = <<>>
  /\ exitCode = 0
  /\ call \in {[filename |-> FileA, content |-> c, allRules |-> RulesOf(K)] :
                 c \in Documents, K \in KnownSets}
  /\ returned = <<>>
  /\ previous = <<>>
  /\ ci = NoWorkflow

\* lines 86-143
CallValidateRuleFile ==
  /\ returned = <<>>
  /\ returned' = <<validateRuleFile(call.filename, call.content, call.allRules)>>
  /\ UNCHANGED <<driverVars, call, previous, ci>>

NextFile == CallValidateRuleFile

SpecFile == InitFile /\ [][NextFile]_vars

(***************************************************************************)
(* validateRuleFile called on a second family of documents: a blank        *)
(* Description, a reference inside the header, a '#' in the middle of a    *)
(* line, a reference to a file in a subdirectory.                          *)
(***************************************************************************)
\* 'Description: \n', a descriptive key with a blank value
LineDescriptionBlank == Description \o <<":", " ", NL>>

\* 'Note: @b.mdc\n', a header entry whose value holds a reference token
LineNoteRefB == <<"N", "o", "t", "e", ":", " ", "@">> \o FileB \o <<NL>>

HeaderLinesExtra == {LineDescription, LineDescriptionBlank, LineGlobs, LineNoteRefB}

\* 't # t\n', a line with a '#' that does not begin it
BodyMidHash == <<"t", " ", "#", " ", "t", NL>>

\* '@s/c.mdc\n', the sigil followed by the identifier of s/c.mdc
BodyRefC == <<"@">> \o FileC \o <<NL>>

BodyPartsExtra == {BodyHeading, BodyMidHash, BodyRefC}

DocumentsExtra ==
  { open \o Flatten(h) \o close \o Flatten(b) :
      open \in DelimiterOrNone, h \in SeqsUpTo(HeaderLinesExtra, MaxHeaderLines),
      close \in DelimiterOrNone, b \in SeqsUpTo(BodyPartsExtra, MaxBodyLines) }

KnownSetsExtra == {{FileA}, {FileA, FileC}}

InitFileExtra ==
  /\ dirExists = TRUE
  /\ disk = EmptyMap
  /\ pc = "idle"
  /\ ruleFiles = <<>>
  /\ idx = 1
  /\ hasErrors = FALSE
  /\ validFiles = <<>>
  /\ allRules = EmptyMap
  /\ report = <<>>
  /\ summary = <<>>
  /\ exitCode = 0
  /\ call \in {[filename |-> FileA, content |-> c, allRules |-> RulesOf(K)] :
                 c \in DocumentsExtra, K \in KnownSetsExtra}
  /\ returned = <<>>
  /\ previous = <<>>
  /\ ci = NoWorkflow

SpecFileExtra == InitFileExtra /\ [][NextFile]_vars

(***************************************************************************)
(* validateRuleFile called on a third family of documents, all beginning   *)
(* with the opening delimiter: header lines that are not entries, and      *)
(* headers closed by the last line of the file or not closed at all.       *)
(***************************************************************************)
\* ':Description: d\n', a line with nothing before its first colon
LineEmptyKey == <<":">> \o Description \o <<":", " ", "d", NL>>

\* '@b.mdc\n', a line without a colon
LineBareRefB == <<"@">> \o FileB \o <<NL>>

HeaderLinesEdge == {LineDescription, LineGlobs, LineEmptyKey, LineBareRefB}

\* what follows the header lines: the closing delimiter as the last line of
\* the file without and with its newline, nothing, the closing delimiter
\* and a heading
TailsEdge == {Dashes, Dashes \o <<NL>>, <<>>, Dashes \o <<NL>> \o BodyHeading}

DocumentsEdge ==
  { Dashes \o <<NL>> \o Flatten(h) \o tail :
      h \in SeqsUpTo(HeaderLinesEdge, MaxHeaderLines), tail \in TailsEdge }

InitFileEdge ==
  /\ dirExists = TRUE
  /\ disk = EmptyMap
  /\ pc = "idle"
  /\ ruleFiles = <<>>
  /\ idx = 1
  /\ hasErrors = FALSE
  /\ validFiles = <<>>
  /\ allRules = EmptyMap
  /\ report = <<>>
  /\ summary = <<>>
  /\ exitCode = 0
  /\ call \in {[filename |-> FileA, content |-> c, allRules |-> RulesOf(K)] :
                 c \in DocumentsEdge, K \in KnownSets}
  /\ returned = <<>>
  /\ previous = <<>>
  /\ ci = NoWorkflow

SpecFileEdge == InitFileEdge /\ [][NextFile]_vars

(***************************************************************************)
(* Vocabulary of the claims: the document format as the specification      *)
(* describes it (delimiter lines, header entries `Key: value`, body).      *)
(***************************************************************************)
LinesOf(content) == Split(content, <<NL>>)

\* the text opens with a delimiter line and a later delimiter line closes it
HasHeaderBlock(content) ==
  LET lines == LinesOf(content)
  IN  /\ lines[1] = Dashes
      /\ \E j \in 2..Len(lines) : lines[j] = Dashes

\* index, among the lines, of the delimiter line that closes the header
ClosingLine(content) ==
  LET lines == LinesOf(content)
  IN  CHOOSE j \in 2..Len(lines) :
        /\ lines[j] = Dashes
        /\ \A i \in 2..(j - 1) : lines[i] # Dashes

HeaderBlockLines(content) ==
  IF HasHeaderBlock(content)
  THEN SubSeq(LinesOf(content), 2, ClosingLine(content) - 1)
  ELSE <<>>

BodyLinesOf(content) ==
  IF HasHeaderBlock(content)
  THEN SubSeq(LinesOf(content), ClosingLine(content) + 1, Len(LinesOf(content)))
  ELSE <<>>

FirstColon(line) == IndexOf(line, <<":">>, 0)

\* a header line of the form `Key: value`
IsEntry(line) ==
  /\ FirstColon(line) # NotFound
  /\ Trim(Substring(line, 0, FirstColon(line))) # <<>>

EntryKey(line) == Trim(Substring(line, 0, FirstColon(line)))

EntryValue(line) == Trim(Substring(line, FirstColon(line) + 1, Len(line)))

\* the header lines that are entries under key
EntriesOf(content, key) ==
  LET h == HeaderBlockLines(content)
  IN  {k \in 1..Len(h) : IsEntry(h[k]) /\ EntryKey(h[k]) = key}

HeaderHasKey(content, key) == EntriesOf(content, key) # {}

\* key is in the header and its value is empty or whitespace-only
HeaderValueBlank(content, key) ==
  /\ HeaderHasKey(content, key)
  /\ \A k \in EntriesOf(content, key) : EntryValue(HeaderBlockLines(content)[k]) = <<>>

\* key is in the header with a non-empty value
HeaderValueGiven(content, key) ==
  /\ HeaderHasKey(content, key)
  /\ \A k \in EntriesOf(content, key) : EntryValue(HeaderBlockLines(content)[k]) # <<>>

\* the body has a line that begins with the heading marker
BodyHasHeading(content) ==
  \E k \in 1..Len(BodyLinesOf(content)) : StartsWith(BodyLinesOf(content)[k], <<"#">>)

\* the identifier a reference token names
TargetOf(token) == Substring(token, 1, Len(token))

WellFormed(content, known) ==
  /\ HasHeaderBlock(content)
  /\ \A n \in 1..Len(REQUIRED_SECTIONS) : HeaderValueGiven(content, REQUIRED_SECTIONS[n])
  /\ BodyHasHeading(content)
  /\ \A t \in Range(References(content)) : TargetOf(t) \in known

\* how often p occurs in s
Occurrences(s, p) == Cardinality({k \in 0..(Len(s) - Len(p)) : MatchAt(s, p, k)})

\* how often diagnostic d is in errors
Count(errors, d) == Cardinality({k \in 1..Len(errors) : errors[k] = d})

KindsOf(errors) == {errors[k].kind : k \in 1..Len(errors)}

Known == DOMAIN call.allRules

HasReturned == returned # <<>>

ReturnedErrors == returned[1].errors

IsDanglingKind(e) == e.kind = "DanglingReference"

(***************************************************************************)
(* Claims about validateRuleFile, under SpecFile.                          *)
(***************************************************************************)
\* C4 as stated: a document whose text does not begin with the opening
\* delimiter gets MissingHeaderBlock and no diagnostic of any other kind.
C4_OnlyMissingHeaderBlock ==
  (HasReturned /\ ~StartsWith(call.content, Dashes))
    => KindsOf(ReturnedErrors) = {"MissingHeaderBlock"}

\* C4 as amended: such a document gets MissingHeaderBlock exactly once, as
\* the first diagnostic, and validation goes on with an empty frontmatter:
\* a MissingRequiredKey for each required key is reported as well, never an
\* EmptyRequiredValue, and the closing-delimiter, reference and body checks
\* still run on the raw text.
C4_MissingHeaderThenRest ==
  (HasReturned /\ ~StartsWith(call.content, Dashes))
    => /\ ReturnedErrors[1] = MissingHeaderBlock
       /\ Count(ReturnedErrors, MissingHeaderBlock) = 1
       /\ \A n \in 1..Len(REQUIRED_SECTIONS) :
            Count(ReturnedErrors, MissingRequiredKey(REQUIRED_SECTIONS[n])) = 1
       /\ "EmptyRequiredValue" \notin KindsOf(ReturnedErrors)
       /\ ("UnterminatedHeaderBlock" \in KindsOf(ReturnedErrors)
             <=> ~Includes(call.content, Closer))
       /\ Count(ReturnedErrors, DanglingReference(FileB))
            = (IF FileB \in Known THEN 0
               ELSE Occurrences(call.content, <<"@">> \o FileB))
       /\ ("EmptyBodyContent" \in KindsOf(ReturnedErrors)
             <=> ~Includes(MainContent(call.content), <<"#">>))

\* C4 witness: a document without the opening delimiter has been validated
\* and got diagnostics of four other kinds besides MissingHeaderBlock.
C4_Witness ==
  /\ HasReturned
  /\ ~StartsWith(call.content, Dashes)
  /\ KindsOf(ReturnedErrors) =
       {"MissingHeaderBlock", "UnterminatedHeaderBlock", "MissingRequiredKey",
        "DanglingReference", "EmptyBodyContent"}

\* C5: every well-formed document (delimiter lines balanced, both required
\* keys present with non-empty values, a heading line in the body, every
\* reference token naming a known document) gets zero diagnostics and is
\* reported valid.
C5_WellFormedIsValid ==
  (HasReturned /\ WellFormed(call.content, Known))
    => (returned[1].valid /\ ReturnedErrors = <<>>)

\* C7 as stated: a document that references an identifier that is not in
\* the known set gets exactly one DanglingReference diagnostic naming it.
C7_ExactlyOneDangling ==
  HasReturned =>
    \A g \in FileIds \ Known :
      (\E t \in Range(References(call.content)) : TargetOf(t) = g)
        => Count(ReturnedErrors, DanglingReference(g)) = 1

\* C7 as amended: a document gets exactly one DanglingReference diagnostic
\* for each occurrence of a reference token whose identifier is not in the
\* known set, each naming that identifier (two occurrences of one missing
\* identifier give two diagnostics), and none naming a known identifier.
C7_OneDanglingPerOccurrence ==
  HasReturned =>
    /\ \A g \in {FileA, FileB} \ Known :
         Count(ReturnedErrors, DanglingReference(g))
           = Occurrences(call.content, <<"@">> \o g)
    /\ \A k \in 1..Len(ReturnedErrors) :
         ReturnedErrors[k].kind = "DanglingReference"
           => ReturnedErrors[k].arg \notin Known

\* C7 witness: a validated document references the unknown b.mdc twice and
\* got two DanglingReference diagnostics naming it.
C7_Witness ==
  /\ HasReturned
  /\ FileB \notin Known
  /\ Occurrences(call.content, <<"@">> \o FileB) = 2
  /\ Count(ReturnedErrors, DanglingReference(FileB)) = 2

\* C8: for each required key, a document whose header has no entry with
\* that key gets a MissingRequiredKey diagnostic naming the key.
C8_MissingKeyReported ==
  HasReturned =>
    \A n \in 1..Len(REQUIRED_SECTIONS) :
      ~HeaderHasKey(call.content, REQUIRED_SECTIONS[n])
        => MissingRequiredKey(REQUIRED_SECTIONS[n]) \in Range(ReturnedErrors)

\* C9: a document whose header has the pattern-list key with an empty or
\* whitespace-only value gets an EmptyRequiredValue diagnostic for it and
\* no MissingRequiredKey diagnostic for it.
C9_BlankGlobsReported ==
  (HasReturned /\ HeaderValueBlank(call.content, Globs))
    => /\ EmptyRequiredValue \in Range(ReturnedErrors)
       /\ MissingRequiredKey(Globs) \notin Range(ReturnedErrors)

\* the length of the word characters (letters, digits, underscore, hyphen)
\* that follow the sigil at 0-based index k of content
RECURSIVE WordLength(_, _)
WordLength(content, k) ==
  IF k + 1 < Len(content) /\ content[k + 2] \in WordOrHyphen
  THEN 1 + WordLength(content, k + 1)
  ELSE 0

\* the 0-based indices at which a reference token starts: a sigil, at least
\* one word character, then the extension
TokenStarts(content) ==
  {k \in 0..(Len(content) - 1) :
     /\ content[k + 1] = "@"
     /\ WordLength(content, k) >= 1
     /\ MatchAt(content, MdcExt, k + 1 + WordLength(content, k))}

\* the identifier named by the token that starts at k
TokenTarget(content, k) ==
  Substring(content, k + 1, k + 1 + WordLength(content, k) + Len(MdcExt))

\* C15: the number of DanglingReference diagnostics a document gets equals
\* the number of reference-token occurrences in it whose target identifier
\* is not in the known set, and no token whose target is known produces a
\* diagnostic naming it.
C15_DanglingCountIsUnknownTokens ==
  HasReturned =>
    /\ Cardinality({k \in 1..Len(ReturnedErrors) : IsDanglingKind(ReturnedErrors[k])})
         = Cardinality({k \in TokenStarts(call.content) :
                          TokenTarget(call.content, k) \notin Known})
    /\ \A k \in TokenStarts(call.content) :
         TokenTarget(call.content, k) \in Known
           => DanglingReference(TokenTarget(call.content, k))
                \notin Range(ReturnedErrors)

\* C15 witness: a validated document holds two reference tokens, one to a
\* known file and one to an unknown one, and got one DanglingReference
\* diagnostic.
C15_Witness ==
  /\ HasReturned
  /\ Cardinality(TokenStarts(call.content)) = 2
  /\ \E k \in TokenStarts(call.content) : TokenTarget(call.content, k) \in Known
  /\ \E k \in TokenStarts(call.content) : TokenTarget(call.content, k) \notin Known
  /\ Cardinality({k \in 1..Len(ReturnedErrors) : IsDanglingKind(ReturnedErrors[k])}) = 1

\* C20: the body examined by the content check is all of the text after
\* the header's closing delimiter: a document with a heading line anywhere
\* after the closing delimiter, also after a further delimiter-like line, is
\* not reported with EmptyBodyContent.
C20_HeadingAnywhereInBody ==
  (HasReturned /\ HasHeaderBlock(call.content) /\ BodyHasHeading(call.content))
    => EmptyBodyContent \notin Range(ReturnedErrors)

(***************************************************************************)
(* Claims about validateRuleFile, under SpecFileExtra.                     *)
(***************************************************************************)
\* how many reference tokens naming g the lines hold
TokensNaming(lines, g) ==
  Cardinality({p \in UNION {{<<n, k>> : k \in TokenStarts(lines[n])} : n \in 1..Len(lines)} :
                 TokenTarget(lines[p[1]], p[2]) = g})

\* C16 as stated: a reference token inside the header block that names an
\* unknown identifier produces no DanglingReference diagnostic: a document
\* with a header block gets one for an unknown identifier only as often as
\* its body names it.
C16_HeaderTokensIgnored ==
  (HasReturned /\ HasHeaderBlock(call.content)) =>
    \A g \in FileIds \ Known :
      Count(ReturnedErrors, DanglingReference(g))
        = TokensNaming(BodyLinesOf(call.content), g)

\* C16 as amended: reference tokens are looked for in the whole text, the
\* header block included: a document with a header block gets one
\* DanglingReference diagnostic for every token naming an unknown
\* identifier, those inside the header block as well as those in the body.
C16_HeaderTokensCount ==
  (HasReturned /\ HasHeaderBlock(call.content)) =>
    \A g \in FileIds \ Known :
      Count(ReturnedErrors, DanglingReference(g))
        = TokensNaming(HeaderBlockLines(call.content), g)
            + TokensNaming(BodyLinesOf(call.content), g)

\* C16 witness: a validated document names the unknown b.mdc in its header
\* block only and got a DanglingReference diagnostic naming it.
C16_Witness ==
  /\ HasReturned
  /\ HasHeaderBlock(call.content)
  /\ FileB \notin Known
  /\ TokensNaming(HeaderBlockLines(call.content), FileB) = 1
  /\ TokensNaming(BodyLinesOf(call.content), FileB) = 0
  /\ Count(ReturnedErrors, DanglingReference(FileB)) = 1

\* C17: every known identifier can be referenced: where the text of a
\* document holds the sigil followed by a known identifier, identifiers of
\* files in subdirectories included, that text is recognised as a reference
\* token naming the identifier and no DanglingReference names it.
C17_KnownIdentifierReferencable ==
  HasReturned =>
    \A g \in Known :
      Occurrences(call.content, <<"@">> \o g) >= 1
        => /\ \E n \in 1..Len(References(call.content)) :
                TargetOf(References(call.content)[n]) = g
           /\ DanglingReference(g) \notin Range(ReturnedErrors)

\* C18 as stated: a document whose header has the descriptive key with an
\* empty or whitespace-only value gets an EmptyRequiredValue diagnostic and
\* is reported invalid.
C18_BlankDescriptionReported ==
  (HasReturned /\ HeaderValueBlank(call.content, Description))
    => /\ EmptyRequiredValue \in Range(ReturnedErrors)
       /\ ~returned[1].valid

\* C18 as amended: only the presence of the descriptive key is checked: a
\* document whose header has it with an empty or whitespace-only value gets
\* neither EmptyRequiredValue nor MissingRequiredKey for it, and is reported
\* valid when the pattern-list key has a value, the body has a heading line
\* and every reference token names a known document.
C18_BlankDescriptionAccepted ==
  (HasReturned /\ HeaderValueBlank(call.content, Description))
    => /\ EmptyRequiredValue \notin Range(ReturnedErrors)
       /\ MissingRequiredKey(Description) \notin Range(ReturnedErrors)
       /\ ( /\ HeaderValueGiven(call.content, Globs)
            /\ BodyHasHeading(call.content)
            /\ \A n \in 1..Len(References(call.content)) :
                 TargetOf(References(call.content)[n]) \in Known )
            => returned[1].valid

\* C18 witness: a validated document whose header has a blank descriptive
\* key was reported valid.
C18_Witness ==
  /\ HasReturned
  /\ HeaderValueBlank(call.content, Description)
  /\ returned[1].valid

\* C19: a document whose body has no line that begins with the heading
\* marker is reported with EmptyBodyContent; a heading marker in the middle
\* of a line does not count.
C19_NoHeadingLineReported ==
  (HasReturned /\ HasHeaderBlock(call.content) /\ ~BodyHasHeading(call.content))
    => EmptyBodyContent \in Range(ReturnedErrors)

(***************************************************************************)
(* Claims about validateRuleFile, under SpecFileEdge.                      *)
(***************************************************************************)
\* a line after the first consists solely of the delimiter marker
HasClosingLine(content) ==
  \E j \in 2..Len(LinesOf(content)) : LinesOf(content)[j] = Dashes

\* C21: a document that begins with the opening delimiter is reported with
\* UnterminatedHeaderBlock if and only if no later line of it consists
\* solely of the delimiter marker; a closing delimiter that is the last
\* line of the file, with or without a newline after it, closes the header.
C21_UnterminatedIffNoClosingLine ==
  (HasReturned /\ StartsWith(call.content, Dashes))
    => (UnterminatedHeaderBlock \in Range(ReturnedErrors)
          <=> ~HasClosingLine(call.content))

\* C22 as stated: a document that begins with the opening delimiter and has
\* no closing delimiter is reported with UnterminatedHeaderBlock and with
\* no MissingRequiredKey and no EmptyRequiredValue diagnostic.
C22_UnterminatedSkipsSchema ==
  (HasReturned /\ StartsWith(call.content, Dashes) /\ ~HasClosingLine(call.content))
    => /\ UnterminatedHeaderBlock \in Range(ReturnedErrors)
       /\ KindsOf(ReturnedErrors) \cap {"MissingRequiredKey", "EmptyRequiredValue"} = {}

\* C22 as amended: the required-key check runs on such a document too, with
\* an empty frontmatter: it is reported with UnterminatedHeaderBlock once
\* and with one MissingRequiredKey for each required key, whatever its
\* header lines hold, and never with EmptyRequiredValue.
C22_UnterminatedThenMissingKeys ==
  (HasReturned /\ StartsWith(call.content, Dashes) /\ ~HasClosingLine(call.content))
    => /\ Count(ReturnedErrors, UnterminatedHeaderBlock) = 1
       /\ \A n \in 1..Len(REQUIRED_SECTIONS) :
            Count(ReturnedErrors, MissingRequiredKey(REQUIRED_SECTIONS[n])) = 1
       /\ EmptyRequiredValue \notin Range(ReturnedErrors)

\* C22 witness: a validated document opens its header, gives both required
\* keys a value, never closes the header, and got MissingRequiredKey for both.
C22_Witness ==
  /\ HasReturned
  /\ call.content = Dashes \o <<NL>> \o LineDescription \o LineGlobs
  /\ UnterminatedHeaderBlock \in Range(ReturnedErrors)
  /\ MissingRequiredKey(Description) \in Range(ReturnedErrors)
  /\ MissingRequiredKey(Globs) \in Range(ReturnedErrors)

\* the lines joined again by newlines
RECURSIVE JoinLines(_)
JoinLines(lines) ==
  IF Len(lines) = 0 THEN <<>>
  ELSE IF Len(lines) = 1 THEN lines[1]
  ELSE lines[1] \o <<NL>> \o JoinLines(Tail(lines))

\* content without its j-th line
WithoutLine(content, j) ==
  LET lines == LinesOf(content)
  IN  JoinLines(SubSeq(lines, 1, j - 1) \o SubSeq(lines, j + 1, Len(lines)))

\* C23: header parsing is tolerant: a line of the header block that is not
\* of the form `Key: value` produces no diagnostic of its own and changes
\* no other diagnostic: the document gets exactly the diagnostics it gets
\* without that line.
C23_NonEntryLineIgnored ==
  (HasReturned /\ HasHeaderBlock(call.content)) =>
    \A k \in 1..Len(HeaderBlockLines(call.content)) :
      ~IsEntry(HeaderBlockLines(call.content)[k])
        => ReturnedErrors = Errors(WithoutLine(call.content, k + 1), call.allRules)

(***************************************************************************)
(* Claims about a run of validateRules, under Spec.                        *)
(***************************************************************************)
\* the diagnostics of discovered file f, whatever the discovery order
DiagnosticsOf(f) == Errors(disk[f], RulesOf(DOMAIN disk))

Readable(f) == disk[f] # Unreadable

IsDangling(e) == e.kind = "DanglingReference"

\* how many results have been printed for file f
Reported(f) == Cardinality({k \in 1..Len(report) : report[k].file = f})

\* C1 as stated: the exit code is non-zero if and only if at least one
\* discovered document is invalid.
C1_ExitIffInvalid ==
  pc = "exited" =>
    (exitCode # 0 <=>
       \E f \in Range(ruleFiles) : Readable(f) /\ DiagnosticsOf(f) # <<>>)

\* C1 as amended: the exit code is non-zero if and only if the rules
\* directory does not exist, or reading a discovered file throws, or at
\* least one discovered document is invalid; in a run that printed its
\* summary it is non-zero iff some document produced a diagnostic.
C1_ExitCode ==
  pc = "exited" =>
    /\ exitCode \in {0, 1}
    /\ exitCode # 0 <=>
         \/ ~dirExists
         \/ \E f \in DOMAIN disk : ~Readable(f)
         \/ \E f \in DOMAIN disk : Readable(f) /\ DiagnosticsOf(f) # <<>>
    /\ summary # <<>> =>
         (exitCode # 0 <=> \E k \in 1..Len(report) : report[k].errors # <<>>)

\* C1 witness: a run over two files, one valid and one invalid, has printed
\* its summary and exited with code 1.
C1_Witness ==
  /\ pc = "exited"
  /\ summary # <<>>
  /\ exitCode = 1
  /\ \E j, k \in 1..Len(report) : report[j].valid /\ ~report[k].valid

\* C2: whenever validateRuleFile can be or has been called, the key set of
\* allRules is the full set of discovered files.
C2_AllRegisteredBeforeResolver ==
  (pc = "secondPass" \/ report # <<>>) =>
    /\ DOMAIN allRules = Range(ruleFiles)
    /\ DOMAIN allRules = DOMAIN disk

\* C2 witness: the second pass is about to make its first call and two
\* files are registered.
C2_Witness ==
  /\ pc = "secondPass"
  /\ idx = 1
  /\ report = <<>>
  /\ Cardinality(DOMAIN allRules) = 2

\* C3: the DanglingReference diagnostics of every validated document are
\* those computed against the set of files on disk, which does not depend
\* on the order globSync returned them in; two existing documents that
\* reference each other get none, in either order.
C3_OrderIndependentReferences ==
  /\ \A k \in 1..Len(report) :
       SelectSeq(report[k].errors, IsDangling)
         = ReferenceErrors(disk[report[k].file], RulesOf(DOMAIN disk))
  /\ ({FileA, FileB} \subseteq DOMAIN disk /\ disk[FileA] = DocRefB
        /\ disk[FileB] = DocRefA)
       => \A k \in 1..Len(report) :
            report[k].file \in {FileA, FileB}
              => SelectSeq(report[k].errors, IsDangling) = <<>>

\* C3 witness: a.mdc references b.mdc, b.mdc references a.mdc, a.mdc was
\* discovered first (a forward reference) and both were reported valid.
C3_Witness ==
  /\ pc = "exited"
  /\ ruleFiles = <<FileA, FileB>>
  /\ disk[FileA] = DocRefB
  /\ disk[FileB] = DocRefA
  /\ Len(report) = 2
  /\ report[1].valid
  /\ report[2].valid

\* C6: a document is reported valid, and listed in validFiles, if and only
\* if the header-structure, schema, reference and body checks together
\* produce no diagnostic for it.
C6_ValidIffNoDiagnostics ==
  \A k \in 1..Len(report) :
    LET content == disk[report[k].file]
        none    == /\ StartErrors(content) = <<>>
                   /\ CloseErrors(content) = <<>>
                   /\ SectionErrors(Frontmatter(content)) = <<>>
                   /\ GlobsErrors(Frontmatter(content)) = <<>>
                   /\ ReferenceErrors(content, allRules) = <<>>
                   /\ ContentErrors(content) = <<>>
    IN  /\ report[k].valid <=> none
        /\ report[k].valid <=> report[k].errors = <<>>
        /\ report[k].file \in Range(validFiles) <=> none

\* C6 witness: a run has reported one document valid and another one, with
\* a single diagnostic, invalid.
C6_Witness ==
  \E j, k \in 1..Len(report) :
    /\ report[j].valid
    /\ ~report[k].valid
    /\ Len(report[k].errors) = 1

ScenarioDisk ==
  [f \in {FileA, FileB, FileC} |->
     IF f = FileA THEN DocPlain ELSE IF f = FileB THEN DocRefA ELSE DocRefMissing]

\* C11: in the run over exactly base, child and orphan, base and child are
\* reported valid, orphan is reported invalid with exactly one
\* DanglingReference diagnostic naming the missing document, and the run
\* fails (exit code 1, summary of 2 valid and 1 invalid).
C11_EndToEnd ==
  (pc = "exited" /\ disk = ScenarioDisk) =>
    /\ Len(report) = 3
    /\ \A f \in {FileA, FileB, FileC} : Reported(f) = 1
    /\ \A k \in 1..Len(report) :
         IF report[k].file = FileC
         THEN /\ ~report[k].valid
              /\ report[k].errors = <<DanglingReference(FileMissing)>>
         ELSE /\ report[k].valid
              /\ report[k].errors = <<>>
    /\ Range(validFiles) = {FileA, FileB}
    /\ summary = <<[valid |-> 2, invalid |-> 1]>>
    /\ hasErrors
    /\ exitCode = 1

\* C11 witness: the scenario has run to its end, with orphan discovered
\* first and base last.
C11_Witness ==
  /\ pc = "exited"
  /\ disk = ScenarioDisk
  /\ ruleFiles = <<FileC, FileB, FileA>>
  /\ Len(report) = 3

\* the files of the report entries, in the order they were printed
ReportedFiles == [k \in 1..Len(report) |-> report[k].file]

\* the files reported as passing, in the order they were printed
ReportedValid ==
  LET passing == SelectSeq(report, LAMBDA e : e.valid)
  IN  [k \in 1..Len(passing) |-> passing[k].file]

\* C13: results are printed in discovery order: at every moment the files
\* of the printed results are a prefix of the list the file enumeration
\* returned, and the valid-files list holds the passing files in that same
\* order.
C13_DiscoveryOrder ==
  /\ Len(report) <= Len(ruleFiles)
  /\ ReportedFiles = SubSeq(ruleFiles, 1, Len(report))
  /\ pc \in {"secondPass", "rejected", "summary", "exited"}
       => validFiles = ReportedValid

\* C13 witness: a run has ended after reporting three files, discovered in
\* an order that is not the alphabetical one, two of them valid.
C13_Witness ==
  /\ pc = "exited"
  /\ ruleFiles = <<FileB, FileC, FileA>>
  /\ Len(report) = 3
  /\ Len(validFiles) = 2

\* the diagnostics of errors other than DanglingReference, in their order
OwnDiagnostics(errors) == SelectSeq(errors, LAMBDA e : ~IsDangling(e))

\* C24: the structure, schema and body-content diagnostics of a document
\* depend on its own text only: the diagnostics other than
\* DanglingReference printed for a file are those its text gets when no
\* document is known and when every document is, whatever other files the
\* run found.
C24_OwnDiagnosticsFromTextOnly ==
  \A k \in 1..Len(report) :
    \A K \in {{}, FileIds \cup {FileMissing}} :
      OwnDiagnostics(report[k].errors)
        = OwnDiagnostics(Errors(disk[report[k].file], RulesOf(K)))

\* C24 witness: a run over three files has ended in which one file got
\* diagnostics of its own, another a DanglingReference only, and the third
\* none.
C24_Witness ==
  /\ pc = "exited"
  /\ Len(report) = 3
  /\ \E i, j, k \in 1..3 :
       /\ OwnDiagnostics(report[i].errors) # <<>>
       /\ report[j].errors # <<>> /\ OwnDiagnostics(report[j].errors) = <<>>
       /\ report[k].errors = <<>>

\* the first pass is over
AfterFirstPass == pc \in {"secondPass", "rejected", "summary", "exited"}

\* C25: allRules is a read-only snapshot during validation: once the first
\* pass is over its key set is the set of discovered files, one entry per
\* file, and no later step adds, removes or changes an entry.
C25_SnapshotReadOnly ==
  /\ [](AfterFirstPass =>
          /\ DOMAIN allRules = Range(ruleFiles)
          /\ Cardinality(DOMAIN allRules) = Len(ruleFiles)
          /\ \A f \in DOMAIN allRules : allRules[f] = [path |-> PathJoin(RULES_DIR, f)])
  /\ [][AfterFirstPass => allRules' = allRules]_vars

\* C25 witness: the second pass has validated three files, one of them with
\* a dangling reference, and allRules still holds its three entries.
C25_Witness ==
  /\ pc = "summary"
  /\ Len(report) = 3
  /\ \E k \in 1..3 : \E e \in Range(report[k].errors) : IsDangling(e)
  /\ Cardinality(DOMAIN allRules) = 3

\* how many files have been reported as invalid
InvalidCount == Cardinality({k \in 1..Len(report) : ~report[k].valid})

\* C26: the counts of a run are consistent: after each iteration of the
\* second pass the files recorded as valid plus the files reported as
\* invalid are the files processed so far; when the loop has run to its end
\* and the summary is printed, valid + invalid is the number of discovered
\* files; the failure flag is set exactly when a file has been reported as
\* invalid, and once set it is never cleared.
C26_CountsConsistent ==
  /\ [](/\ Len(validFiles) + InvalidCount = Len(report)
        /\ pc = "secondPass" => Len(report) = idx - 1
        /\ pc = "summary" => Len(report) = Len(ruleFiles)
        /\ summary # <<>> =>
             /\ summary[1].valid = Len(validFiles)
             /\ summary[1].invalid = InvalidCount
             /\ summary[1].valid + summary[1].invalid = Len(ruleFiles)
        /\ hasErrors <=> InvalidCount > 0)
  /\ [][hasErrors => hasErrors']_vars

\* C26 witness: the summary of a run over three files has been printed,
\* with two files valid and one invalid.
C26_Witness ==
  /\ pc = "exited"
  /\ summary = <<[valid |-> 2, invalid |-> 1]>>
  /\ Len(ruleFiles) = 3
  /\ InvalidCount = 1
  /\ hasErrors

\* C27: when the rules directory does not exist the run never gets to the
\* enumeration: no file is found, registered or validated, no summary is
\* printed, and the process exits with a code that is not zero.
C27_MissingDirectoryExits ==
  ~dirExists =>
    /\ pc \in {"start", "exited"}
    /\ ruleFiles = <<>>
    /\ allRules = EmptyMap
    /\ report = <<>>
    /\ summary = <<>>
    /\ pc = "exited" => exitCode # 0

\* C27 witness: a run without a rules directory has exited with code 1.
C27_Witness ==
  /\ ~dirExists
  /\ pc = "exited"
  /\ exitCode = 1

\* C28: when the rules directory exists and holds no rule file the run
\* ends at the enumeration: nothing is registered or validated, no summary
\* is printed, and the process exits with code zero.
C28_NoRuleFilesExitsZero ==
  (dirExists /\ DOMAIN disk = {}) =>
    /\ pc \in {"start", "glob", "exited"}
    /\ ruleFiles = <<>>
    /\ allRules = EmptyMap
    /\ report = <<>>
    /\ summary = <<>>
    /\ exitCode = 0
    /\ ~hasErrors

\* C28 witness: a run over an existing, empty rules directory has exited
\* with code 0.
C28_Witness ==
  /\ dirExists
  /\ DOMAIN disk = {}
  /\ pc = "exited"
  /\ exitCode = 0

C14_SyncOnlyAfterValidateSuccess ==
  /\ ci.sync = "started"
       => /\ ci.validate = "success"
          /\ pc = "exited"
          /\ exitCode = 0
  /\ ci.validate = "failure" => ci.sync # "started"

\* C14 witness: the sync job has started in a run whose validator reported
\* two files.
C14_Witness ==
  /\ ci.sync = "started"
  /\ Len(report) = 2

====
